---------------------------- MODULE Spec2Model ----------------------------
(***************************************************************************)
(* Model of temgymbasic/utils.py: the segmented in-place cumulative sum,   *)
(* the concentric-ring and random-disc samplers, the two beam builders and *)
(* the pixel-coordinate transform.                                         *)
(*                                                                         *)
(* Every function of the module is stateless, so the state is one call:    *)
(* which function ran (op), the arguments it was given (args) and what it  *)
(* left behind (ret: the returned arrays, the mutated buffer, the error).  *)
(* Each action is one whole call; its arguments are drawn from bounded     *)
(* sets.                                                                   *)
(*                                                                         *)
(* Numbers.  Buffers of multi_cumsum_inplace hold integers.  An angle is   *)
(* an integer count of the unit 2*pi/aden, where aden is the product of    *)
(* points_per_ring, so 2*pi/points_per_ring[k] is the exact integer        *)
(* aden/points_per_ring[k].  pi is the rational PiNum/PiDen; the ring      *)
(* count, the weights and points_per_ring it gives equal those of the      *)
(* double-precision code for every num_points_approx in 0..60.  A          *)
(* coordinate radius*sin(angle) or radius*cos(angle) is kept symbolic.     *)
(***************************************************************************)
EXTENDS Integers, Sequences, FiniteSets

VARIABLES op, args, ret

vars == <<op, args, ret>>

(* ------------------------------ bounds -------------------------------- *)

\* longest buffer handed to multi_cumsum_inplace directly
MaxLen == 3
\* most entries of a partitions argument, and the largest entry
MaxParts == 3
MaxPartLen == 3
\* largest num_points_approx handed to concentric_rings and the beams
MaxPoints == 40
\* largest num handed to random_coords and the random beams
MaxNum == 3
\* largest radius / semiangle
MaxRadius == 2
\* largest detector shape dimension (with the one below it) and pixel size
MaxShape == 10
MaxPixelSize == 2

(* ------------------------- program constants -------------------------- *)

\* np.pi as the rational 355/113
PiNum == 355
PiDen == 113
\* the oversampling factor 1.28 of random_coords
OversampleNum == 128
OversampleDen == 100

(* ------------------------------ helpers ------------------------------- *)

Max(a, b) == IF a >= b THEN a ELSE b

Abs(a) == IF a >= 0 THEN a ELSE -a

RECURSIVE SumSeq(_)
SumSeq(s) == IF s = <<>> THEN 0 ELSE Head(s) + SumSeq(Tail(s))

RECURSIVE ProdSeq(_)
ProdSeq(s) == IF s = <<>> THEN 1 ELSE Head(s) * ProdSeq(Tail(s))

\* all sequences over S of length 0..n
SeqsUpTo(S, n) == UNION { [1..k -> S] : k \in 0..n }

\* int(x) of Python for the rational n/d, d > 0: truncation toward zero
IntTrunc(n, d) == IF n >= 0 THEN n \div d ELSE -((-n) \div d)

\* np.round of the rational n/d, n >= 0, d > 0: nearest, ties to even
RoundHalfEven(n, d) ==
    LET q == n \div d
        r == n % d
    IN  IF 2 * r < d THEN q
        ELSE IF 2 * r > d THEN q + 1
        ELSE IF q % 2 = 0 THEN q ELSE q + 1

(* ------------------------ multi_cumsum_inplace ------------------------ *)

\* partitions[idx] (idx 0-based).  The function is compiled by numba
\* without bounds checks: a read past the end yields whatever the memory
\* there holds, here garbage[idx + 1].
PartitionAt(partitions, garbage, idx) ==
    IF idx + 1 \in DOMAIN partitions THEN partitions[idx + 1]
    ELSE garbage[idx + 1]

\* The for loop over v_idx in range(1, values.size); i is v_idx + 1.
RECURSIVE CumsumLoop(_, _, _, _, _)
CumsumLoop(st, partitions, start, garbage, i) ==
    IF i > Len(st.values) THEN st
    ELSE IF st.current_part_len = st.part_count
    THEN CumsumLoop(
            [values |-> [st.values EXCEPT ![i] = start],
             part_idx |-> st.part_idx + 1,
             current_part_len |-> PartitionAt(partitions, garbage, st.part_idx + 1),
             part_count |-> 0,
             oob |-> st.oob \/ (st.part_idx + 2 \notin DOMAIN partitions)],
            partitions, start, garbage, i + 1)
    ELSE CumsumLoop(
            [st EXCEPT !.values = [st.values EXCEPT ![i] = st.values[i] + st.values[i - 1]],
                       !.part_count = st.part_count + 1],
            partitions, start, garbage, i + 1)

\* multi_cumsum_inplace(values, partitions, start): the buffer afterwards
\* and whether any access fell outside values or partitions.  values[0] =
\* start on an empty buffer writes outside it.
MultiCumsum(values, partitions, start, garbage) ==
    CumsumLoop(
        [values |-> IF values = <<>> THEN values ELSE [values EXCEPT ![1] = start],
         part_idx |-> 0,
         current_part_len |-> PartitionAt(partitions, garbage, 0),
         part_count |-> 0,
         oob |-> (partitions = <<>>) \/ (values = <<>>)],
        partitions, start, garbage, 2)

\* What memory past the end of partitions may hold, per index read.
GarbageFor(values, partitions) ==
    [(Len(partitions) + 1)..Max(1, Len(values)) -> 0..MaxLen]

\* An out-of-bounds access either goes unnoticed or kills the process.
Outcomes(oob) == IF oob THEN {"none", "segfault"} ELSE {"none"}

MultiCumsumInplace ==
    /\ op = "idle"
    /\ \E values \in SeqsUpTo(1..2, MaxLen),
          partitions \in SeqsUpTo(0..MaxPartLen, MaxParts),
          start \in {0, 5} :
        \E garbage \in GarbageFor(values, partitions) :
            LET st == MultiCumsum(values, partitions, start, garbage)
            IN  \E error \in Outcomes(st.oob) :
                    /\ op' = "multi_cumsum_inplace"
                    /\ args' = [values |-> values, partitions |-> partitions,
                                start |-> start]
                    /\ ret' = [values |-> st.values, oob |-> st.oob,
                               error |-> error]

(* -------------------------- concentric_rings --------------------------- *)

\* A float that is radius * sin(angle), radius * cos(angle) or a literal:
\* radius = rnum/rden, angle = 2*pi*a/aden.
Coord(fn, rnum, rden, a, aden) ==
    [fn |-> fn, rnum |-> rnum, rden |-> rden, a |-> a, aden |-> aden]

Lit(v) == Coord("lit", v, 1, 0, 1)

\* 1 + 4*N/pi < 0: np.sqrt gives nan, np.floor keeps it and int(nan)
\* raises ValueError.
SqrtIsNaN(N) == PiNum + 4 * N * PiDen < 0

\* max(1, int(floor((-1 + sqrt(1 + 4*N/pi)) / 2))) for N >= 0:
\* k <= (-1 + sqrt(1 + 4*N/pi))/2  iff  pi*k*(k+1) <= N.
NumRings(N) ==
    Max(1, CHOOSE k \in 0..N :
               /\ PiNum * k * (k + 1) <= PiDen * N
               /\ PiNum * (k + 1) * (k + 2) > PiDen * N)

\* np.round(2*pi*arange(1, num_rings + 1)).astype(int)
NumPointsKthRing(num_rings) ==
    [k \in 1..num_rings |-> RoundHalfEven(2 * PiNum * k, PiDen)]

\* mutant: the weights taken as the counts, the scaling to N forgotten
PointsPerRingUnscaled(N, weights) == weights

\* mutant: points_per_unit computed by integer division
PointsPerRingTruncated(N, weights) ==
    [k \in DOMAIN weights |-> weights[k] * (N \div SumSeq(weights))]

\* np.round(num_points_kth_ring * points_per_unit).astype(int) with
\* points_per_unit = num_points_approx / num_points_kth_ring.sum()
PointsPerRing(N, weights) ==
    [k \in DOMAIN weights |-> RoundHalfEven(weights[k] * N, SumSeq(weights))]

\* np.linspace(0, radius, num_rings + 1)[1:], as numerators over num_rings
Radii(radius, num_rings) == [k \in 1..num_rings |-> radius * k]

\* 2*pi / points_per_ring in units of 2*pi/aden; 2*pi/0 is inf (a numpy
\* warning, no exception), written -1 here and never repeated into the
\* buffer, as its ring has no points.
DivAngle(points_per_ring, aden) ==
    [k \in DOMAIN points_per_ring |->
        IF points_per_ring[k] = 0 THEN -1 ELSE aden \div points_per_ring[k]]

\* np.repeat(row, counts): row[k] repeated counts[k] times
RECURSIVE Repeat(_, _)
Repeat(row, counts) ==
    IF row = <<>> THEN <<>>
    ELSE [i \in 1..Head(counts) |-> Head(row)] \o Repeat(Tail(row), Tail(counts))

\* concentric_rings(num_points_approx, radius), and in oob whether its call
\* of multi_cumsum_inplace left its arrays.  That call is handed
\* points_per_ring as partitions and reads past their end in no call made
\* here (oob is then the write to an empty buffer alone), so the memory
\* behind them is left at 0.
ConcentricRings(N, radius) ==
    IF SqrtIsNaN(N) THEN [error |-> "ValueError", oob |-> FALSE]
    ELSE
    LET num_rings == NumRings(N)
        num_points_kth_ring == NumPointsKthRing(num_rings)
        points_per_ring == PointsPerRing(N, num_points_kth_ring)
        aden == ProdSeq(points_per_ring)
        radii == Radii(radius, num_rings)
        div_angle == DivAngle(points_per_ring, aden)
        all_radii == Repeat(radii, points_per_ring)
        steps == Repeat(div_angle, points_per_ring)
        st == MultiCumsum(steps, points_per_ring, 0,
                          [i \in 1..(Len(steps) + 1) |-> 0])
        all_angles == st.values
    IN  [error |-> "none",
         num_rings |-> num_rings,
         num_points_kth_ring |-> num_points_kth_ring,
         points_per_ring |-> points_per_ring,
         aden |-> aden,
         all_angles |-> all_angles,
         oob |-> st.oob,
         y |-> [i \in DOMAIN all_radii |->
                   Coord("sin", all_radii[i], num_rings, all_angles[i], aden)],
         x |-> [i \in DOMAIN all_radii |->
                   Coord("cos", all_radii[i], num_rings, all_angles[i], aden)]]

\* What the caller of a sampler is left with: its result, or nothing when
\* the out-of-bounds write killed the process.
Survived(s, outcome) == IF outcome = "segfault" THEN [error |-> "segfault"] ELSE s

RadiusArgs == (-1)..MaxRadius

ConcentricRingsCall ==
    /\ op = "idle"
    /\ \E N \in (-1)..MaxPoints, radius \in RadiusArgs :
        \E outcome \in Outcomes(ConcentricRings(N, radius).oob) :
            /\ op' = "concentric_rings"
            /\ args' = [num_points_approx |-> N, radius |-> radius]
            /\ ret' = Survived(ConcentricRings(N, radius), outcome)

(* ---------------------------- random_coords --------------------------- *)

\* mutant: the count the disc/square area ratio 4/pi = 1.2732 would give,
\* rounded up
NumCandidatesCeil(num) == -((-(num * 12732)) \div 10000)

\* int(num * 1.28)
NumCandidates(num) == IntTrunc(num * OversampleNum, OversampleDen)

\* Draws of np.random.uniform(-max_r, max_r) used for a candidate (y, x):
\* the centre, a point at distance exactly |max_r| and a corner of the
\* square.
SamplePoints(max_r) == {<<0, 0>>, <<-max_r, 0>>, <<-max_r, -max_r>>}

\* radii < max_r with radii = sqrt(y^2 + x^2)
InsideDisc(p, max_r) == max_r > 0 /\ p[1] * p[1] + p[2] * p[2] < max_r * max_r

\* yx[mask, :]
RECURSIVE Masked(_, _)
Masked(yx, max_r) ==
    IF yx = <<>> THEN <<>>
    ELSE (IF InsideDisc(Head(yx), max_r) THEN <<Head(yx)>> ELSE <<>>)
         \o Masked(Tail(yx), max_r)

\* random_coords(num, max_r) given the draws yx; a negative size makes
\* np.random.uniform raise ValueError.
RandomCoords(num, max_r, yx) ==
    IF NumCandidates(num) < 0 THEN [error |-> "ValueError", oob |-> FALSE]
    ELSE
    LET kept == Masked(yx, max_r)
    IN  [error |-> "none",
         oob |-> FALSE,
         drawn |-> Len(yx),
         y |-> [i \in DOMAIN kept |-> Lit(kept[i][1])],
         x |-> [i \in DOMAIN kept |-> Lit(kept[i][2])]]

\* the arrays of draws np.random.uniform can return for size (n, 2)
Draws(num, max_r) == [1..Max(0, NumCandidates(num)) -> SamplePoints(max_r)]

RandomCoordsCall ==
    /\ op = "idle"
    /\ \E num \in (-1)..MaxNum, max_r \in RadiusArgs :
        \E yx \in Draws(num, max_r) :
            /\ op' = "random_coords"
            /\ args' = [num |-> num, max_r |-> max_r, yx |-> yx]
            /\ ret' = RandomCoords(num, max_r, yx)

(* --------------------- initial_r and the beams ------------------------ *)

\* np.zeros((5, num_rays)) with r[4, :] = 1.
InitialR(num_rays) ==
    [row \in 0..4 |-> [j \in 1..num_rays |-> IF row = 4 THEN Lit(1) ELSE Lit(0)]]

\* mutant: the rows point_beam writes
CircularBeamMatrixSlopeRows(y, x) ==
    [InitialR(Len(y)) EXCEPT ![1] = y, ![3] = x]

\* r = initial_r(y.shape[0]); r[0, :] = x; r[2, :] = y
CircularBeamMatrix(y, x) ==
    [InitialR(Len(y)) EXCEPT ![0] = x, ![2] = y]

\* r = initial_r(y.size); r[1, :] = y; r[3, :] = x
PointBeamMatrix(y, x) ==
    [InitialR(Len(y)) EXCEPT ![1] = y, ![3] = x]

\* What the sampler chosen by `random` can return.
Sampled(num, radius, random) ==
    IF random THEN { RandomCoords(num, radius, yx) : yx \in Draws(num, radius) }
    ELSE {ConcentricRings(num, radius)}

\* num_rays_approx of a beam call: the random sampler is given the small
\* counts, the ring sampler the large ones too.
BeamCounts(random) == IF random THEN (-1)..MaxNum ELSE (-1)..MaxPoints

CircularBeam ==
    /\ op = "idle"
    /\ \E random \in BOOLEAN, outer_radius \in RadiusArgs :
        \E num_rays_approx \in BeamCounts(random) :
            \E s \in Sampled(num_rays_approx, outer_radius, random) :
                \E outcome \in Outcomes(s.oob) :
                    /\ op' = "circular_beam"
                    /\ args' = [num_rays_approx |-> num_rays_approx,
                                outer_radius |-> outer_radius, random |-> random]
                    /\ ret' = IF s.error # "none" \/ outcome # "none"
                              THEN [error |-> Survived(s, outcome).error]
                              ELSE [error |-> "none", y |-> s.y, x |-> s.x,
                                    r |-> CircularBeamMatrix(s.y, s.x)]

PointBeam ==
    /\ op = "idle"
    /\ \E random \in BOOLEAN, semiangle \in RadiusArgs :
        \E num_rays_approx \in BeamCounts(random) :
            \E s \in Sampled(num_rays_approx, semiangle, random) :
                \E outcome \in Outcomes(s.oob) :
                    /\ op' = "point_beam"
                    /\ args' = [num_rays_approx |-> num_rays_approx,
                                semiangle |-> semiangle, random |-> random]
                    /\ ret' = IF s.error # "none" \/ outcome # "none"
                              THEN [error |-> Survived(s, outcome).error]
                              ELSE [error |-> "none", y |-> s.y, x |-> s.x,
                                    r |-> PointBeamMatrix(s.y, s.x)]

(* -------------------------- get_pixel_coords -------------------------- *)

\* largest |coordinate| of a ray and most rays of one call
MaxCoord == 1
MaxRays == 1

FlipY == << <<-1, 0>>, <<0, 1>> >>

Identity == << <<1, 0>>, <<0, 1>> >>

\* np.cos and np.sin of pi/180 * degrees at the multiples of 90 degrees,
\* as the exact values (the doubles differ from them by less than 1e-15)
Cos(degrees) ==
    CASE degrees = 0 -> 1 [] degrees = 90 -> 0
      [] degrees = 180 -> -1 [] degrees = 270 -> 0

Sin(degrees) ==
    CASE degrees = 0 -> 0 [] degrees = 90 -> 1
      [] degrees = 180 -> 0 [] degrees = 270 -> -1

\* _rotate_deg(degrees) = _rotate(pi/180 * degrees)
RotateDeg(degrees) ==
    << <<Cos(degrees), Sin(degrees)>>, <<-Sin(degrees), Cos(degrees)>> >>

\* a @ b for 2x2 matrices
MatMul(a, b) ==
    [i \in 1..2 |-> [j \in 1..2 |-> a[i][1] * b[1][j] + a[i][2] * b[2][j]]]

\* v @ m for a row vector v: one row of np.array((rays_y, rays_x)).T @ m
VecMat(v, m) ==
    <<v[1] * m[1][1] + v[2] * m[2][1], v[1] * m[1][2] + v[2] * m[2][2]>>

\* transform = _rotate_deg(scan_rotation) @ (_flip_y() or _identity())
Transform(flip_y, scan_rotation) ==
    MatMul(RotateDeg(scan_rotation), IF flip_y THEN FlipY ELSE Identity)

\* mutant: half the dimension rounded up
PixelOffsetCeil(s) == (s + 1) \div 2

\* sx // 2, sy // 2
PixelOffset(s) == s \div 2

\* (t / pixel_size) + offset as the fraction num/den
PixelCoord(t, pixel_size, offset) ==
    [num |-> t + offset * pixel_size, den |-> pixel_size]

GetPixelCoords(rays_x, rays_y, shape, pixel_size, flip_y, scan_rotation) ==
    LET transform == Transform(flip_y, scan_rotation)
        t == [i \in DOMAIN rays_x |-> VecMat(<<rays_y[i], rays_x[i]>>, transform)]
        y_transformed == [i \in DOMAIN t |-> t[i][1]]
        x_transformed == [i \in DOMAIN t |-> t[i][2]]
        sy == shape[1]
        sx == shape[2]
        pixel_coords_x == [i \in DOMAIN t |->
                              PixelCoord(x_transformed[i], pixel_size, PixelOffset(sx))]
        pixel_coords_y == [i \in DOMAIN t |->
                              PixelCoord(y_transformed[i], pixel_size, PixelOffset(sy))]
    IN  [y_transformed |-> y_transformed,
         x_transformed |-> x_transformed,
         pixel_coords |-> <<pixel_coords_x, pixel_coords_y>>]

ShapeDims == (MaxShape - 1)..MaxShape

GetPixelCoordsCall ==
    /\ op = "idle"
    /\ \E n \in 0..MaxRays, shape \in ShapeDims \X ShapeDims,
          pixel_size \in 1..MaxPixelSize, flip_y \in BOOLEAN,
          scan_rotation \in {0, 90, 180, 270} :
        \E rays_x \in [1..n -> (-MaxCoord)..MaxCoord],
           rays_y \in [1..n -> (-MaxCoord)..MaxCoord] :
            /\ op' = "get_pixel_coords"
            /\ args' = [rays_x |-> rays_x, rays_y |-> rays_y, shape |-> shape,
                        pixel_size |-> pixel_size, flip_y |-> flip_y,
                        scan_rotation |-> scan_rotation]
            /\ ret' = GetPixelCoords(rays_x, rays_y, shape, pixel_size,
                                     flip_y, scan_rotation)

(* --------------------------- specification ---------------------------- *)

Init ==
    /\ op = "idle"
    /\ args = <<>>
    /\ ret = <<>>

Next ==
    \/ MultiCumsumInplace
    \/ ConcentricRingsCall
    \/ RandomCoordsCall
    \/ CircularBeam
    \/ PointBeam
    \/ GetPixelCoordsCall

Spec == Init /\ [][Next]_vars


(* ------------------------------- claims ------------------------------- *)

\* 1-based index of the first element of each segment of `partitions`
SegmentStarts(partitions) ==
    { SumSeq(SubSeq(partitions, 1, k)) + 1 : k \in 0..(Len(partitions) - 1) }

\* first index of the segment that holds index i
SegmentStartOf(partitions, i) ==
    CHOOSE b \in SegmentStarts(partitions) :
        b <= i /\ \A c \in SegmentStarts(partitions) : c <= i => c <= b

PositivePartition(values, partitions) ==
    /\ Len(values) >= 1
    /\ partitions # <<>>
    /\ \A k \in DOMAIN partitions : partitions[k] >= 1
    /\ SumSeq(partitions) = Len(values)

\* C1: after multi_cumsum_inplace on a buffer of length M >= 1 with positive
\* partitions summing to M, the first element of every segment equals start
\* and every later element equals start plus the sum of the original values
\* of its segment after the first, up to and including that element.
C1_SegmentsRestartFromStart ==
    (op = "multi_cumsum_inplace" /\ PositivePartition(args.values, args.partitions))
    => \A i \in DOMAIN args.values :
          ret.values[i] =
              args.start
              + SumSeq(SubSeq(args.values,
                              SegmentStartOf(args.partitions, i) + 1, i))

\* index before the first point of ring k in the flat buffers
RingOffset(points_per_ring, k) == SumSeq(SubSeq(points_per_ring, 1, k - 1))

\* C2: for num_points_approx >= 1 (and a positive radius) the j-th point of ring k has the angle
\* j * (2*pi / points_per_ring[k]): the angles restart at 0 in every ring.
C2_AnglesRestartInEveryRing ==
    (op = "concentric_rings" /\ args.num_points_approx >= 1 /\ args.radius > 0
     /\ ret.error = "none")
    => \A k \in DOMAIN ret.points_per_ring :
          \A j \in 0..(ret.points_per_ring[k] - 1) :
              ret.all_angles[RingOffset(ret.points_per_ring, k) + j + 1]
                  = j * (ret.aden \div ret.points_per_ring[k])

\* C3: multi_cumsum_inplace fails with InvalidPartition, stays inside its
\* arrays and leaves the buffer unchanged when partitions is empty or does
\* not sum to the length of values.
C3_InvalidPartitionRejected ==
    (op = "multi_cumsum_inplace"
     /\ (args.partitions = <<>> \/ SumSeq(args.partitions) # Len(args.values)))
    => /\ ret.error = "InvalidPartition"
       /\ ~ret.oob
       /\ ret.values = args.values

SamplerOps == {"concentric_rings", "random_coords", "circular_beam", "point_beam"}

CountArg ==
    CASE op = "concentric_rings" -> args.num_points_approx
      [] op = "random_coords" -> args.num
      [] op \in {"circular_beam", "point_beam"} -> args.num_rays_approx

RadiusArg ==
    CASE op = "concentric_rings" -> args.radius
      [] op = "random_coords" -> args.max_r
      [] op = "circular_beam" -> args.outer_radius
      [] op = "point_beam" -> args.semiangle

\* C4: the samplers and the beam builders fail fast with an error, returning
\* no coordinates or ray matrix, when the radius / semiangle or the
\* approximate point count is <= 0.  The code raises InvalidGeometry
\* nowhere; the ValueError numpy raises is counted as the error here.
C4_InvalidGeometryRejected ==
    (op \in SamplerOps /\ (RadiusArg <= 0 \/ CountArg <= 0))
    => ret.error \in {"InvalidGeometry", "ValueError"}

\* C5: with flip_y the transformed pair is the rotation applied to the
\* flipped row vector (-y, x): flip first, rotation after it.  The rotation
\* applied to a row vector p is p @ _rotate_deg(scan_rotation), which is
\* what get_pixel_coords itself returns for p when flip_y is False.
C5_FlipThenRotate ==
    (op = "get_pixel_coords" /\ args.flip_y)
    => \A i \in DOMAIN args.rays_x :
          <<ret.y_transformed[i], ret.x_transformed[i]>>
              = VecMat(<<-args.rays_y[i], args.rays_x[i]>>,
                       RotateDeg(args.scan_rotation))

AllEqual(row, v) == \A j \in DOMAIN row : row[j] = v

\* C6: a beam builder returns a 5 x N matrix for the N sampled points;
\* circular_beam sets row 0 = x and row 2 = y and leaves rows 1 and 3 at 0,
\* point_beam sets row 1 = y and row 3 = x and leaves rows 0 and 2 at 0,
\* and row 4 is 1 in every column.
C6_BeamRows ==
    (op \in {"circular_beam", "point_beam"} /\ ret.error = "none")
    => /\ DOMAIN ret.r = 0..4
       /\ \A row \in 0..4 : Len(ret.r[row]) = Len(ret.y)
       /\ Len(ret.x) = Len(ret.y)
       /\ AllEqual(ret.r[4], Lit(1))
       /\ op = "circular_beam" =>
             /\ ret.r[0] = ret.x
             /\ ret.r[2] = ret.y
             /\ AllEqual(ret.r[1], Lit(0))
             /\ AllEqual(ret.r[3], Lit(0))
       /\ op = "point_beam" =>
             /\ ret.r[1] = ret.y
             /\ ret.r[3] = ret.x
             /\ AllEqual(ret.r[0], Lit(0))
             /\ AllEqual(ret.r[2], Lit(0))

\* a parallel beam sampled on two rings: 19 columns, positions set
C6_Witness ==
    /\ op = "circular_beam"
    /\ ~args.random
    /\ args.num_rays_approx = 19
    /\ ret.error = "none"
    /\ Len(ret.r[0]) = 19
    /\ ret.r[0][2].fn = "cos"
    /\ ret.r[2][2].fn = "sin"

InsideDraws(yx, max_r) ==
    { i \in DOMAIN yx :
        max_r > 0 /\ yx[i][1] * yx[i][1] + yx[i][2] * yx[i][2] < max_r * max_r }

\* C8 as stated: random_coords draws exactly ceil(num * 1.2732) candidates
\* and returns exactly those with radius < max_r, at most ceil(num * 1.2732).
C8_DrawsCeilOfFourOverPi ==
    (op = "random_coords" /\ args.max_r > 0 /\ ret.error = "none")
    => /\ 10000 * (ret.drawn - 1) < 12732 * args.num
       /\ 12732 * args.num <= 10000 * ret.drawn
       /\ Len(ret.y) = Cardinality(InsideDraws(args.yx, args.max_r))
       /\ Len(ret.y) * 10000 < 12732 * args.num + 10000

\* C8 amended: for num >= 0 random_coords draws exactly int(num * 1.28)
\* candidates (truncated) and returns exactly those with radius < max_r, so
\* at most int(num * 1.28) points.
C8_DrawsTruncatedOversample ==
    (op = "random_coords" /\ args.num >= 0)
    => /\ ret.error = "none"
       /\ 100 * ret.drawn <= 128 * args.num
       /\ 128 * args.num < 100 * (ret.drawn + 1)
       /\ Len(ret.y) = Cardinality(InsideDraws(args.yx, args.max_r))
       /\ Len(ret.x) = Len(ret.y)
       /\ \A i \in DOMAIN ret.y :
             /\ ret.y[i].fn = "lit" /\ ret.x[i].fn = "lit"
             /\ ret.y[i].rnum * ret.y[i].rnum + ret.x[i].rnum * ret.x[i].rnum
                    < args.max_r * args.max_r
       /\ Len(ret.y) <= ret.drawn

\* three candidates drawn for num = 3, one of them rejected
C8_Witness ==
    /\ op = "random_coords"
    /\ args.num = 3
    /\ ret.error = "none"
    /\ ret.drawn = 3
    /\ Len(ret.y) = 2

\* C9: with flip_y = False and scan_rotation = 0 every pair maps to
\* pixel_x = x/pixel_size + floor(sx/2), pixel_y = y/pixel_size + floor(sy/2),
\* returned as (pixel_x, pixel_y); the origin with shape (10, 10) and
\* pixel_size 1 maps to (5, 5).
C9_UnrotatedPixelCoords ==
    (op = "get_pixel_coords" /\ ~args.flip_y /\ args.scan_rotation = 0)
    => LET sy == args.shape[1]
           sx == args.shape[2]
           ps == args.pixel_size
           fx == CHOOSE f \in 0..sx : 2 * f <= sx /\ sx < 2 * f + 2
           fy == CHOOSE f \in 0..sy : 2 * f <= sy /\ sy < 2 * f + 2
       IN  /\ Len(ret.pixel_coords) = 2
           /\ \A i \in DOMAIN args.rays_x :
                LET px == ret.pixel_coords[1][i]
                    py == ret.pixel_coords[2][i]
                IN  /\ px.den > 0 /\ py.den > 0
                    /\ px.num * ps = (args.rays_x[i] + fx * ps) * px.den
                    /\ py.num * ps = (args.rays_y[i] + fy * ps) * py.den
                    /\ (args.shape = <<10, 10>> /\ ps = 1
                        /\ args.rays_x[i] = 0 /\ args.rays_y[i] = 0)
                       => (px.num = 5 * px.den /\ py.num = 5 * py.den)

\* an off-centre ray on a detector with odd and different dimensions
C9_Witness ==
    /\ op = "get_pixel_coords"
    /\ ~args.flip_y
    /\ args.scan_rotation = 0
    /\ args.shape = <<MaxShape - 1, MaxShape>>
    /\ args.pixel_size = 2
    /\ args.rays_x = <<1>>
    /\ args.rays_y = <<-1>>
    /\ ret.pixel_coords[1][1].num = 1 + 2 * (MaxShape \div 2)

\* C10: for num_points_approx >= 1 every entry of points_per_ring is >= 1,
\* so no angular step divides by zero and multi_cumsum_inplace is handed no
\* zero-length segment (and stays inside its arrays); a zero-point ring
\* arises only for num_points_approx <= 0.
C10_NoEmptyRing ==
    (op = "concentric_rings" /\ ret.error = "none")
    => /\ args.num_points_approx >= 1 =>
             /\ \A k \in DOMAIN ret.points_per_ring : ret.points_per_ring[k] >= 1
             /\ ~ret.oob
       /\ (\E k \in DOMAIN ret.points_per_ring : ret.points_per_ring[k] = 0)
             => args.num_points_approx <= 0

\* a single point: the smallest count, still one ring of one point
C10_Witness ==
    /\ op = "concentric_rings"
    /\ args.num_points_approx = 1
    /\ ret.error = "none"
    /\ ret.points_per_ring = <<1>>

=============================================================================
